---- MODULE Spec2Model ----
(***************************************************************************)
(* A state-machine model of the dungeon generator of src/src/Dungeon.ts    *)
(* (class Dungeon) and of the Tile class (src/unnamed/part_000).           *)
(*                                                                         *)
(* One Dungeon instance is modelled.  build() is split at its loop         *)
(* iterations: validate, fill, one room-placement attempt, one outer maze  *)
(* iteration, one growMaze iteration, the connector scan, one door         *)
(* attempt, the per-bucket fallback, one dead-end pass, the return.        *)
(*                                                                         *)
(* Room, Region, Query/NeighborQuery, Coordinates and the chance PRNG are  *)
(* not part of the sources at hand; they are modelled from the            *)
(* specification text and marked as such where they are defined.           *)
(***************************************************************************)
EXTENDS Integers, Sequences, FiniteSets, TLC

(***************************************************************************)
(* Bounds of the model.                                                    *)
(***************************************************************************)
\* smallest stage dimension a caller passes (below 5, so validate() rejects it)
MinStageArg == 4
\* largest stage width / height a caller passes in the full pipeline
MaxStageWidth == 7
MaxStageHeight == 6
\* largest roomTries / maxDoors / doorChance option in the full pipeline
MaxRoomTries == 2
MaxDoorsOpt == 2
MaxDoorChance == 2
\* largest stage dimension and multiplier for the validate-only specification
MaxValidateArg == 14
MaxMultiplier == 3
\* largest stage dimension for the room-placement specification
MaxRoomStage == 11
\* largest roomExtraSize option for the room-placement specification
MaxExtraSize == 1
\* largest stage dimension for the specification of a repeated build()
MaxRebuildStage == 5
\* the stage width of the specification of a wide stage, and its roomTries
WideStageWidth == 11
WideRoomTries == 2
\* the multiplier of the specification of an even grid
EvenMultiplier == 2
\* passes of removeDeadEnds() followed before the model stops following the loop
MaxPasses == 70

(***************************************************************************)
(* Program constants.                                                      *)
(***************************************************************************)
\* validate(): the smallest accepted stage dimension
MinDimension == 5
\* growMaze(): while (cells.length && count < 500)
MazeIterationCap == 500
\* addRooms(): roomRestrictionModifier = 4 * multiplier
RoomRestriction == 4
\* addRooms(): the 50% cap applies when the stage dimension is greater than 10
HalfCapAbove == 10
\* addRooms(): randBetween(1, 3 + roomExtraSize)
BaseRoomSize == 3

VARIABLES
    options,        \* this.options, after the constructor
    stageArg,       \* the stage argument the caller passes to build()
    stage,          \* this.stage (effective width and height)
    tiles,          \* this.tiles: tiles[x][y], 0-based columns of tiles
    rooms,          \* this.rooms
    region,         \* this.region (the current region)
    regionCount,    \* the Region registry: regions started so far
    pc,             \* position inside build()
    err,            \* the error build() threw, if any
    roomTry,        \* addRooms: loop variable i
    mazeAt,         \* build: position of the outer maze loop (index into LatticeCells)
    cells,          \* growMaze: the stack of active cells
    lastDirection,  \* growMaze: lastDirection
    count,          \* growMaze: count
    buckets,        \* connectRegions: regionConnections, in insertion order
    bucketAt,       \* connectRegions: index of the bucket being processed
    doorCount,      \* connectRegions: doorCount of the current bucket
    added,          \* connectRegions: added_connections
    attempts,       \* connectRegions: i
    failedByChance, \* connectRegions: failedByChance
    rng,            \* the PRNG stream of this.rng
    drawLog,        \* the draws the last step consumed, in order
    result,         \* what build() returned last
    firstResult,    \* what the previous build() on this instance returned
    passes          \* removeDeadEnds: calls of cycle() made so far

vars == <<options, stageArg, stage, tiles, rooms, region, regionCount, pc, err,
          roomTry, mazeAt, cells, lastDirection, count, buckets, bucketAt,
          doorCount, added, attempts, failedByChance, rng, drawLog, result,
          firstResult, passes>>

mazeVars == <<mazeAt, cells, lastDirection, count>>
connVars == <<buckets, bucketAt, doorCount, added, attempts, failedByChance>>

(***************************************************************************)
(* Small helpers.                                                          *)
(***************************************************************************)
Min(a, b) == IF a < b THEN a ELSE b
Max(a, b) == IF a > b THEN a ELSE b

NoRegion == [id |-> -1, type |-> "none"]
NoResult == [returned |-> FALSE, rooms |-> <<>>, tiles |-> <<>>]
NoError == [kind |-> "none", names |-> "none", received |-> 0]

(***************************************************************************)
(* Tile (src/unnamed/part_000) and the tile matrix.                        *)
(***************************************************************************)
\* new Tile(type, x, y): region defaults to -1, regionType is undefined
NewTile(type, x, y) ==
    [x |-> x, y |-> y, type |-> type, region |-> -1, regionType |-> "none"]

\* this.tiles[x] && this.tiles[x][y]
HasTile(t, x, y) == x \in DOMAIN t /\ y \in DOMAIN t[x]

\* the positions of the matrix in iteration order: for row of tiles, for tile of row
RECURSIVE ColumnPositions(_, _, _)
ColumnPositions(t, x, y) ==
    IF y \notin DOMAIN t[x] THEN <<>>
    ELSE <<(<<x, y>>)>> \o ColumnPositions(t, x, y + 1)

RECURSIVE MatrixPositions(_, _)
MatrixPositions(t, x) ==
    IF x \notin DOMAIN t THEN <<>>
    ELSE ColumnPositions(t, x, 0) \o MatrixPositions(t, x + 1)

\* fill(type), first loop: a column is pushed per x and a tile per (x, y); columns
\* and tiles of an earlier build stay in this.tiles, the new ones come after them
FillTiles(old, W, H, type) ==
    LET oldCols == Cardinality(DOMAIN old)
        base(c) == IF c < oldCols THEN old[c] ELSE <<>>
        oldLen(c) == Cardinality(DOMAIN base(c))
    IN  [c \in 0..(oldCols + W - 1) |->
            IF c < W
            THEN [j \in 0..(oldLen(c) + H - 1) |->
                     IF j < oldLen(c) THEN base(c)[j]
                     ELSE NewTile(type, c, j - oldLen(c))]
            ELSE base(c)]

(***************************************************************************)
(* Coordinates (modelled from the specification: the four cardinal unit    *)
(* offsets in the fixed order n, e, s, w; eight compass directions).       *)
(***************************************************************************)
cardinalDirections == << <<0, -1>>, <<1, 0>>, <<0, 1>>, <<-1, 0>> >>
compassOffsets ==
    { <<0, -1>>, <<1, -1>>, <<1, 0>>, <<1, 1>>, <<0, 1>>, <<-1, 1>>, <<-1, 0>>, <<-1, -1>> }

\* fill(type), second loop: the tile at matrix position (x, y) with x < width and
\* y < height gets a neighbour for every compass offset that names an existing tile
Wired(x, y) == x >= 0 /\ y >= 0 /\ x < stage.width /\ y < stage.height
HasNeighbor(t, x, y, d) == Wired(x, y) /\ HasTile(t, x + d[1], y + d[2])

\* the cardinal neighbours (positions) of a tile, in the order n, e, s, w
CardinalNeighbors(t, x, y) ==
    LET pick(k) == <<x + cardinalDirections[k][1], y + cardinalDirections[k][2]>>
    IN  SelectSeq([k \in 1..4 |-> pick(k)],
                  LAMBDA p : Wired(x, y) /\ HasTile(t, p[1], p[2]))

(***************************************************************************)
(* The PRNG (chance, seeded by validate()).  A stream is a sequence of raw *)
(* values in [0, 1); integer({min, max}) is floor(raw * (max - min + 1))   *)
(* + min.  In mode "free" every draw may yield any value of its range.  In *)
(* mode "taped" the raw values the seed has produced so far are kept as    *)
(* fractions off / n, and a stream restarted from the same seed yields     *)
(* them again.                                                             *)
(***************************************************************************)
FreeRng == [mode |-> "free", tape |-> <<>>, pos |-> 0]
TapedRng == [mode |-> "taped", tape |-> <<>>, pos |-> 0]

\* randBetween(min, max), as the k-th draw of the current step: the possible values
RandBetween(min, max, k) ==
    IF rng.mode = "taped" /\ rng.pos + k <= Len(rng.tape)
    THEN LET e == rng.tape[rng.pos + k]
         IN  { min + ((e.off * (max - min + 1)) \div e.n) }
    ELSE min..max

\* oneIn(num), as the k-th draw of the current step: the possible values of the draw
OneIn(num, k) == RandBetween(1, num, k)

Draw(label, v, min, max) == [label |-> label, v |-> v, min |-> min, max |-> max]

\* the stream after the draws of one step
Consume(draws) ==
    IF rng.mode = "free" THEN rng
    ELSE LET known == Len(rng.tape) - rng.pos
             entry(k) == [off |-> draws[k].v - draws[k].min,
                          n |-> draws[k].max - draws[k].min + 1]
             fresh == [k \in 1..Max(0, Len(draws) - known) |-> entry(known + k)]
         IN  [mode |-> "taped", tape |-> rng.tape \o fresh, pos |-> rng.pos + Len(draws)]

Labels(draws) == [k \in 1..Len(draws) |-> draws[k].label]

(***************************************************************************)
(* The constructor.                                                        *)
(***************************************************************************)
\* a multiplier option as passed by the caller: absent, or a number of halves
\* (0.5, 1, 1.5, ...; zero and negative values included)
NotGiven == [given |-> FALSE, halves |-> 0]
Halves(h) == [given |-> TRUE, halves |-> h]

\* parseInt(String(v)) of the number h / 2: the fraction is cut off
ParseInt(h) == IF h >= 0 THEN h \div 2 ELSE -((-h) \div 2)

\* this.options.multiplier > 0 ? parseInt(String(this.options.multiplier || 1)) || 1 : 1
NormalizeMultiplier(m) ==
    IF m.given /\ m.halves > 0
    THEN (IF ParseInt(m.halves) # 0 THEN ParseInt(m.halves) ELSE 1)
    ELSE 1

Constructor(o) == [o EXCEPT !.multiplier = NormalizeMultiplier(o.multiplier)]

OptionArgs(doorChances, maxDoors, roomTries, extraSizes, windings, multipliers, deadEnds) ==
    [doorChance : doorChances, maxDoors : maxDoors, roomTries : roomTries,
     roomExtraSize : extraSizes, windingPercent : windings,
     multiplier : multipliers, removeDeadEnds : deadEnds]

\* the state of a fresh instance, before build() is called
Fresh(optionArgs, stageArgs, stream) ==
    /\ options \in { Constructor(o) : o \in optionArgs }
    /\ stageArg \in stageArgs
    /\ stage = [width |-> 0, height |-> 0]
    /\ tiles = <<>>
    /\ rooms = <<>>
    /\ region = NoRegion
    /\ regionCount = 0
    /\ pc = "idle"
    /\ err = NoError
    /\ roomTry = 0
    /\ mazeAt = 1
    /\ cells = <<>>
    /\ lastDirection = "null"
    /\ count = 0
    /\ buckets = <<>>
    /\ bucketAt = 1
    /\ doorCount = 0
    /\ added = 0
    /\ attempts = 0
    /\ failedByChance = <<>>
    /\ rng = stream
    /\ drawLog = <<>>
    /\ result = NoResult
    /\ firstResult = NoResult
    /\ passes = 0

Init ==
    Fresh(OptionArgs(1..MaxDoorChance, 1..MaxDoorsOpt, 0..MaxRoomTries, {0},
                     {0, 100}, {NotGiven, Halves(2), Halves(3), Halves(-2)},
                     BOOLEAN),
          [width : MinStageArg..MaxStageWidth, height : MinStageArg..MaxStageHeight],
          FreeRng)

(***************************************************************************)
(* build(): validate and fill.                                             *)
(***************************************************************************)
RangeError(dimension, received) ==
    [kind |-> "RangeError", names |-> dimension, received |-> received]

\* validate(), lines 185-194: an even dimension is raised by one, then both are
\* multiplied by the multiplier
EffectiveDimension(d, multiplier) == (IF d % 2 = 0 THEN d + 1 ELSE d) * multiplier

\* a variant of Rejected with the limit off by one: a dimension of 4 passes
RejectedBelowFour(s) ==
    IF s.width < MinDimension - 1 THEN "width"
    ELSE IF s.height < MinDimension - 1 THEN "height"
    ELSE "none"

\* validate(), lines 177-183: the dimension the thrown RangeError names, or "none"
Rejected(s) ==
    IF s.width < MinDimension THEN "width"
    ELSE IF s.height < MinDimension THEN "height"
    ELSE "none"

\* build() up to and including validate(): a rejected stage throws, an accepted one
\* sets this.stage and seeds a new PRNG
Validate ==
    /\ pc = "idle"
    /\ IF Rejected(stageArg) # "none"
       THEN /\ err' = RangeError(Rejected(stageArg),
                                 IF Rejected(stageArg) = "width"
                                 THEN stageArg.width ELSE stageArg.height)
            /\ pc' = "error"
            /\ UNCHANGED <<stage, rng>>
       ELSE /\ stage' = [width |-> EffectiveDimension(stageArg.width, options.multiplier),
                         height |-> EffectiveDimension(stageArg.height, options.multiplier)]
            /\ rng' = [rng EXCEPT !.pos = 0]
            /\ pc' = "fill"
            /\ err' = NoError
    /\ drawLog' = <<>>
    /\ UNCHANGED <<options, stageArg, tiles, rooms, region, regionCount, roomTry,
                   mazeAt, cells, lastDirection, count, buckets, bucketAt, doorCount,
                   added, attempts, failedByChance, result, firstResult, passes>>

\* this.fill('wall'); addRooms() then starts with i = 0
Fill ==
    /\ pc = "fill"
    /\ tiles' = FillTiles(tiles, stage.width, stage.height, "wall")
    /\ roomTry' = 0
    /\ mazeAt' = 1
    /\ pc' = IF options.roomTries > 0 THEN "rooms" ELSE "maze"
    /\ drawLog' = <<>>
    /\ UNCHANGED <<options, stageArg, stage, rooms, region, regionCount, err,
                   cells, lastDirection, count, buckets, bucketAt, doorCount,
                   added, attempts, failedByChance, rng, result, firstResult, passes>>

(***************************************************************************)
(* Regions and tile updates.                                               *)
(***************************************************************************)
\* new Region(type): ids are assigned sequentially, starting at 0 (modelled from
\* the specification: a monotonically increasing counter kept on the generator)
NewRegion(type, started) == [id |-> started, type |-> type]

\* setTile(x, y, type): the tile takes the type and the current region
SetTile(t, x, y, type, reg) ==
    [t EXCEPT ![x][y].type = type, ![x][y].region = reg.id, ![x][y].regionType = reg.type]

\* a variant of ResetTile that clears the region but leaves the type in place
ResetTileRegionOnly(t, x, y) == [t EXCEPT ![x][y].region = -1, ![x][y].regionType = "none"]

\* a variant of ResetTile that leaves the region of the tile in place
ResetTileTypeOnly(t, x, y) == [t EXCEPT ![x][y].type = "wall"]

\* resetTile(x, y)
ResetTile(t, x, y) ==
    [t EXCEPT ![x][y].type = "wall", ![x][y].region = -1, ![x][y].regionType = "none"]

\* carveArea(x, y, width, height): the positions setTile is called on
AreaPositions(x, y, width, height) ==
    { <<i, j>> : i \in x..(x + width - 1), j \in y..(y + height - 1) }

\* getTile throws a RangeError for a position that holds no tile
Unreachable(t, positions) == \E p \in positions : ~HasTile(t, p[1], p[2])

\* carveArea visits the area column by column; it stops at the first position
\* that holds no tile: the positions carved before that
CarvedBeforeThrow(t, positions) ==
    { p \in positions :
        \A q \in positions :
            (q[1] < p[1] \/ (q[1] = p[1] /\ q[2] <= p[2])) => HasTile(t, q[1], q[2]) }

\* carveArea: every position visited becomes floor in the current region
CarveArea(t, x, y, width, height, reg) ==
    LET area == AreaPositions(x, y, width, height)
        carved == IF Unreachable(t, area) THEN CarvedBeforeThrow(t, area) ELSE area
    IN
    [c \in DOMAIN t |->
        [j \in DOMAIN t[c] |->
            IF <<c, j>> \in carved
            THEN [t[c][j] EXCEPT !.type = "floor", !.region = reg.id,
                                 !.regionType = reg.type]
            ELSE t[c][j]]]

(***************************************************************************)
(* Room (modelled from the specification).                                 *)
(***************************************************************************)
Room(x, y, width, height) == [x |-> x, y |-> y, width |-> width, height |-> height]

\* touches: the rectangles overlap or leave no wall between them
Touches(a, b) ==
    ~ \/ b.x > a.x + a.width
      \/ b.x + b.width < a.x
      \/ b.y > a.y + a.height
      \/ b.y + b.height < a.y

\* containsTile: the tile lies inside the rectangle
ContainsTile(r, x, y) ==
    /\ r.x <= x /\ x < r.x + r.width
    /\ r.y <= y /\ y < r.y + r.height

(***************************************************************************)
(* addRooms().                                                             *)
(***************************************************************************)
\* lines 318-330: the outer limit of a room along a stage dimension
OuterLimit(dim, multiplier) ==
    LET limit == dim - RoomRestriction * multiplier
    IN  IF dim > HalfCapAbove /\ 2 * limit > dim THEN (dim + 1) \div 2 ELSE limit

\* a variant of Origin without the clamp at the edge of the stage
OriginUnclamped(step, size, dim) == step * 2 + 1

\* lines 351-362: the origin of a room along a dimension, from the drawn step
Origin(step, size, dim) ==
    LET at == step * 2 + 1
    IN  IF at + size >= dim THEN Max(1, dim - size - 1) ELSE at

\* a variant of Overlaps whose loop skips the room accepted first
OverlapsSkipFirst(room, accepted) ==
    \E k \in 2..Len(accepted) : Touches(room, accepted[k])

\* lines 366-373: the candidate touches a room accepted before
Overlaps(room, accepted) == \E k \in 1..Len(accepted) : Touches(room, accepted[k])

\* a variant of AddRoom that starts the room region before the overlap test, so
\* that a rejected attempt starts a region as well
AddRoomRegionFirst ==
    /\ pc = "rooms"
    /\ roomTry < options.roomTries
    /\ \E n \in RandBetween(1, BaseRoomSize + options.roomExtraSize, 1) :
         LET size == n * 2 + 1 IN
         \E r \in RandBetween(0, 1 + (size \div 2), 2) :
         \E axis \in OneIn(2, 3) :
           LET rectangularity == r * 2
               w0 == IF axis = 1 THEN size + rectangularity ELSE size
               h0 == IF axis = 1 THEN size ELSE size + rectangularity
               width == Min(w0, OuterLimit(stage.width, options.multiplier))
               height == Min(h0, OuterLimit(stage.height, options.multiplier))
               maxX == (stage.width - width) \div 2
               maxY == (stage.height - height) \div 2
           IN
           \E sx \in RandBetween(0, maxX, 4) :
           \E sy \in RandBetween(0, maxY, 5) :
             LET x == Origin(sx, width, stage.width)
                 y == Origin(sy, height, stage.height)
                 room == Room(x, y, width, height)
                 draws == << Draw("size", n, 1, BaseRoomSize + options.roomExtraSize),
                             Draw("rectangularity", r, 0, 1 + (size \div 2)),
                             Draw("axis", axis, 1, 2),
                             Draw("x", sx, 0, maxX),
                             Draw("y", sy, 0, maxY) >>
                 started == NewRegion("room", regionCount)
                 last == roomTry + 1 >= options.roomTries
             IN
             /\ rng' = Consume(draws)
             /\ drawLog' = Labels(draws)
             /\ roomTry' = roomTry + 1
             /\ IF Overlaps(room, rooms)
                THEN /\ pc' = IF last THEN "maze" ELSE "rooms"
                     /\ region' = started
                     /\ regionCount' = regionCount + 1
                     /\ UNCHANGED <<rooms, tiles, err>>
                ELSE /\ rooms' = Append(rooms, room)
                     /\ region' = started
                     /\ regionCount' = regionCount + 1
                     /\ tiles' = CarveArea(tiles, x, y, width, height, started)
                     /\ IF Unreachable(tiles, AreaPositions(x, y, width, height))
                        THEN /\ pc' = "error"
                             /\ err' = RangeError("tile", 0)
                        ELSE /\ pc' = IF last THEN "maze" ELSE "rooms"
                             /\ UNCHANGED err
    /\ UNCHANGED <<options, stageArg, stage, mazeVars, connVars, result, firstResult, passes>>

\* one iteration of the loop of addRooms(): five draws, then the candidate is
\* dropped, or recorded, given a new region and carved
AddRoom ==
    /\ pc = "rooms"
    /\ roomTry < options.roomTries
    /\ \E n \in RandBetween(1, BaseRoomSize + options.roomExtraSize, 1) :
         LET size == n * 2 + 1 IN
         \E r \in RandBetween(0, 1 + (size \div 2), 2) :
         \E axis \in OneIn(2, 3) :
           LET rectangularity == r * 2
               w0 == IF axis = 1 THEN size + rectangularity ELSE size
               h0 == IF axis = 1 THEN size ELSE size + rectangularity
               width == Min(w0, OuterLimit(stage.width, options.multiplier))
               height == Min(h0, OuterLimit(stage.height, options.multiplier))
               maxX == (stage.width - width) \div 2
               maxY == (stage.height - height) \div 2
           IN
           \E sx \in RandBetween(0, maxX, 4) :
           \E sy \in RandBetween(0, maxY, 5) :
             LET x == Origin(sx, width, stage.width)
                 y == Origin(sy, height, stage.height)
                 room == Room(x, y, width, height)
                 draws == << Draw("size", n, 1, BaseRoomSize + options.roomExtraSize),
                             Draw("rectangularity", r, 0, 1 + (size \div 2)),
                             Draw("axis", axis, 1, 2),
                             Draw("x", sx, 0, maxX),
                             Draw("y", sy, 0, maxY) >>
                 started == NewRegion("room", regionCount)
                 last == roomTry + 1 >= options.roomTries
             IN
             /\ rng' = Consume(draws)
             /\ drawLog' = Labels(draws)
             /\ roomTry' = roomTry + 1
             /\ IF Overlaps(room, rooms)
                THEN /\ pc' = IF last THEN "maze" ELSE "rooms"
                     /\ UNCHANGED <<rooms, region, regionCount, tiles, err>>
                ELSE /\ rooms' = Append(rooms, room)
                     /\ region' = started
                     /\ regionCount' = regionCount + 1
                     /\ tiles' = CarveArea(tiles, x, y, width, height, started)
                     /\ IF Unreachable(tiles, AreaPositions(x, y, width, height))
                        THEN /\ pc' = "error"
                             /\ err' = RangeError("tile", 0)
                        ELSE /\ pc' = IF last THEN "maze" ELSE "rooms"
                             /\ UNCHANGED err
    /\ UNCHANGED <<options, stageArg, stage, mazeVars, connVars, result, firstResult, passes>>

(***************************************************************************)
(* The maze: build()'s loop over the odd cells, and growMaze().            *)
(***************************************************************************)
\* build(), lines 218-219: the cells (x, y), y = 1, 3, ... < height outermost,
\* x = 1, 3, ... < width innermost
LatticeCells(s) ==
    LET nx == s.width \div 2
        ny == s.height \div 2
    IN  [k \in 1..(nx * ny) |->
            [x |-> 2 * ((k - 1) % nx) + 1, y |-> 2 * ((k - 1) \div nx) + 1]]

\* growMaze(), line 251: a neighbour (any of the eight) of the start cell is floor
FloorNeighbor(t, x, y) ==
    \E d \in compassOffsets :
        HasNeighbor(t, x, y, d) /\ t[x + d[1]][y + d[2]].type = "floor"

\* canCarve(cell, offset)
CanCarve(t, cell, d) ==
    LET endX == cell.x + d[1] * 3
        endY == cell.y + d[2] * 3
        destX == cell.x + d[1] * 2
        destY == cell.y + d[2] * 2
    IN  /\ HasTile(t, endX, endY)
        /\ t[endX][endY].type = "wall"
        /\ HasTile(t, destX, destY)
        /\ t[destX][destY].type # "floor"

\* lastDirection: null, or the copy {...direction} of the direction carved last
NullDirection == [set |-> FALSE, x |-> 0, y |-> 0]
CopyOf(d) == [set |-> TRUE, x |-> d[1], y |-> d[2]]

\* v.toString() of a direction of cardinalDirections, an array [x, y]
ArrayToString(d) ==
    CASE d = <<0, -1>> -> "0,-1"
      [] d = <<1, 0>> -> "1,0"
      [] d = <<0, 1>> -> "0,1"
      [] d = <<-1, 0>> -> "-1,0"

\* lastDirection.toString(): lastDirection is a plain object copy of a point
ObjectToString(o) == "[object Object]"

\* line 284: lastDirection && cellIds.indexOf(lastDirection.toString()) > -1
LastDirectionCarvable(unmade, last) ==
    /\ last.set
    /\ \E k \in 1..Len(unmade) : ArrayToString(unmade[k]) = ObjectToString(last)

\* lines 284-289: the direction carved and the draws made to choose it
DirectionChoices(unmade, last, windingPercent) ==
    LET n == Len(unmade) IN
    IF LastDirectionCarvable(unmade, last)
    THEN { [dir |-> <<last.x, last.y>>, draws |-> << Draw("winding", r, 1, 100) >>] :
             r \in { v \in RandBetween(1, 100, 1) : v > windingPercent } }
         \cup
         { [dir |-> unmade[k + 1],
            draws |-> << Draw("winding", r, 1, 100), Draw("direction", k, 0, n - 1) >>] :
             r \in { v \in RandBetween(1, 100, 1) : v <= windingPercent },
             k \in RandBetween(0, n - 1, 2) }
    ELSE { [dir |-> unmade[k + 1], draws |-> << Draw("direction", k, 0, n - 1) >>] :
             k \in RandBetween(0, n - 1, 1) }

\* one iteration of build()'s maze loop: a floor cell is skipped; otherwise
\* growMaze() is entered, which returns at once next to a floor tile and else
\* starts a corridor region, carves the start cell and pushes it
MazeScan ==
    /\ pc = "maze"
    /\ mazeAt <= Len(LatticeCells(stage))
    /\ LET cell == LatticeCells(stage)[mazeAt]
           started == NewRegion("corridor", regionCount)
       IN  IF tiles[cell.x][cell.y].type = "floor" \/ FloorNeighbor(tiles, cell.x, cell.y)
           THEN UNCHANGED <<tiles, region, regionCount, cells, lastDirection, count, pc>>
           ELSE /\ region' = started
                /\ regionCount' = regionCount + 1
                /\ tiles' = SetTile(tiles, cell.x, cell.y, "floor", started)
                /\ cells' = << cell >>
                /\ lastDirection' = NullDirection
                /\ count' = 0
                /\ pc' = "grow"
    /\ mazeAt' = mazeAt + 1
    /\ drawLog' = <<>>
    /\ UNCHANGED <<options, stageArg, stage, rooms, err, roomTry, connVars, rng,
                   result, firstResult, passes>>

\* one iteration of the while loop of growMaze(); the loop ends, and growMaze()
\* returns to build()'s loop, when the stack is empty or count reaches the cap
GrowStep ==
    /\ pc = "grow"
    /\ LET cell == cells[Len(cells)]
           unmade == SelectSeq(cardinalDirections, LAMBDA d : CanCarve(tiles, cell, d))
       IN  IF unmade # <<>>
           THEN \E choice \in DirectionChoices(unmade, lastDirection, options.windingPercent) :
                  LET d == choice.dir
                      newCell == [x |-> cell.x + d[1] * 2, y |-> cell.y + d[2] * 2]
                  IN  /\ tiles' = SetTile(SetTile(tiles, cell.x + d[1], cell.y + d[2],
                                                  "floor", region),
                                          newCell.x, newCell.y, "floor", region)
                      /\ cells' = Append(cells, newCell)
                      /\ lastDirection' = CopyOf(d)
                      /\ rng' = Consume(choice.draws)
                      /\ drawLog' = Labels(choice.draws)
           ELSE /\ cells' = SubSeq(cells, 1, Len(cells) - 1)
                /\ lastDirection' = NullDirection
                /\ drawLog' = <<>>
                /\ UNCHANGED <<tiles, rng>>
    /\ count' = count + 1
    /\ pc' = IF cells' # <<>> /\ count' < MazeIterationCap THEN "grow" ELSE "maze"
    /\ UNCHANGED <<options, stageArg, stage, rooms, region, regionCount, err, roomTry,
                   mazeAt, connVars, result, firstResult, passes>>

(***************************************************************************)
(* Neighbour queries (Query / NeighborQuery, modelled from the             *)
(* specification: cardinal neighbours at level 1, filtered) and the Tile   *)
(* predicates built on them (src/unnamed/part_000).                        *)
(***************************************************************************)
\* keep the first element of every value
RECURSIVE Unique(_)
Unique(seq) ==
    IF seq = <<>> THEN <<>>
    ELSE LET front == Unique(SubSeq(seq, 1, Len(seq) - 1))
             last == seq[Len(seq)]
         IN  IF \E k \in 1..Len(front) : front[k] = last THEN front
             ELSE Append(front, last)

\* line 399: find().start(tile).unique('region').cardinal().levels().notRegion(-1)
\* .get().map(neighbor => neighbor.region)
TileRegions(t, x, y) ==
    LET near == CardinalNeighbors(t, x, y)
        ids == [k \in 1..Len(near) |-> t[near[k][1]][near[k][2]].region]
    IN  Unique(SelectSeq(ids, LAMBDA id : id # -1))

\* find().levels(1).type(type).get(): the cardinal neighbours of that type
NeighborsOfType(t, x, y, type) ==
    SelectSeq(CardinalNeighbors(t, x, y), LAMBDA p : t[p[1]][p[2]].type = type)

\* find().cardinal().notType('wall').get()
NeighborsNotWall(t, x, y) ==
    SelectSeq(CardinalNeighbors(t, x, y), LAMBDA p : t[p[1]][p[2]].type # "wall")

\* this.neighbors.<d>?.isFloor()
FloorAt(t, x, y, d) == HasNeighbor(t, x, y, d) /\ t[x + d[1]][y + d[2]].type = "floor"

\* Tile.isCorner(): exactly one quadrant has both of its cardinal neighbours floor
IsCorner(t, x, y) ==
    LET n == FloorAt(t, x, y, <<0, -1>>)
        e == FloorAt(t, x, y, <<1, 0>>)
        s == FloorAt(t, x, y, <<0, 1>>)
        w == FloorAt(t, x, y, <<-1, 0>>)
        corners == Cardinality({ q \in { <<1, n /\ e>>, <<2, n /\ w>>,
                                        <<3, s /\ e>>, <<4, s /\ w>> } : q[2] })
    IN  corners = 1

\* Tile.nearDoors(): doors(1).length > 0
NearDoors(t, x, y) == Len(NeighborsOfType(t, x, y, "door")) > 0

\* Tile.isAtEnd(): floors().length === 1
IsAtEnd(t, x, y) == Len(NeighborsOfType(t, x, y, "floor")) = 1

(***************************************************************************)
(* connectRegions().                                                       *)
(***************************************************************************)
\* lines 404-408: the tile is pushed on the bucket of its key (tileRegions.join('-')),
\* a new key is added after the keys present
AddToBucket(acc, key, p) ==
    IF \E k \in 1..Len(acc) : acc[k].key = key
    THEN [k \in 1..Len(acc) |->
             IF acc[k].key = key THEN [acc[k] EXCEPT !.tiles = Append(@, p)] ELSE acc[k]]
    ELSE Append(acc, [key |-> key, tiles |-> << p >>])

\* lines 393-410: the scan of all tiles for connectors
RECURSIVE Bucketing(_, _, _)
Bucketing(t, positions, acc) ==
    IF positions = <<>> THEN acc
    ELSE LET p == Head(positions)
             tile == t[p[1]][p[2]]
             tileRegions == TileRegions(t, p[1], p[2])
         IN  IF tile.type # "wall" \/ tile.region # -1 \/ Len(tileRegions) <= 1
             THEN Bucketing(t, Tail(positions), acc)
             ELSE Bucketing(t, Tail(positions), AddToBucket(acc, tileRegions, p))

\* lines 393-410: the scan goes through this.tiles row by row; the buckets of a
\* row are complete before the next row is scanned
RECURSIVE BucketRows(_, _, _)
BucketRows(t, x, acc) ==
    IF x \notin DOMAIN t THEN acc
    ELSE LET row == Bucketing(t, ColumnPositions(t, x, 0), acc)
         IN  IF Len(row) >= 0 THEN BucketRows(t, x + 1, row) ELSE row

\* the position of build() after connectRegions()
AfterConnect == IF options.removeDeadEnds THEN "deadends" ELSE "return"

\* a variant of MoreAttempts that ignores the door count drawn for the bucket
MoreAttemptsUncounted == attempts < options.doorChance

\* line 420: added_connections < doorCount && i < this.options.doorChance
MoreAttempts == added < doorCount /\ attempts < options.doorChance

\* lines 425-429: the tile may take a door
DoorAllowed(t, x, y) == ~IsCorner(t, x, y) /\ ~NearDoors(t, x, y) /\ ~IsAtEnd(t, x, y)

\* line 432 / 446: door.type = 'door'
MakeDoor(t, p) == [t EXCEPT ![p[1]][p[2]].type = "door"]

\* the maze loop of build() has ended: connectRegions() scans the tiles
ConnectScan ==
    /\ pc = "maze"
    /\ mazeAt > Len(LatticeCells(stage))
    /\ buckets' = BucketRows(tiles, 0, <<>>)
    /\ bucketAt' = 1
    /\ pc' = IF buckets' # <<>> THEN "bucket" ELSE AfterConnect
    /\ passes' = 0
    /\ drawLog' = <<>>
    /\ UNCHANGED <<options, stageArg, stage, tiles, rooms, region, regionCount, err,
                   roomTry, mazeVars, doorCount, added, attempts, failedByChance, rng,
                   result, firstResult>>

\* lines 415-419: the next bucket is entered and its door count drawn
BucketStart ==
    /\ pc = "bucket"
    /\ \E n \in RandBetween(1, options.maxDoors, 1) :
         /\ doorCount' = n
         /\ rng' = Consume(<< Draw("doorCount", n, 1, options.maxDoors) >>)
    /\ added' = 0
    /\ attempts' = 0
    /\ failedByChance' = <<>>
    /\ pc' = "doors"
    /\ drawLog' = << "doorCount" >>
    /\ UNCHANGED <<options, stageArg, stage, tiles, rooms, region, regionCount, err,
                   roomTry, mazeVars, buckets, bucketAt, result, firstResult, passes>>

\* lines 420-438: one iteration of the door loop of the current bucket
DoorAttempt ==
    /\ pc = "doors"
    /\ MoreAttempts
    /\ LET connections == buckets[bucketAt].tiles IN
       \E rand \in RandBetween(0, Len(connections) - 1, 1) :
       \E chance \in OneIn(options.doorChance, 2) :
         LET door == connections[rand + 1]
             byChance == chance = 1
             draws == << Draw("connector", rand, 0, Len(connections) - 1),
                         Draw("byChance", chance, 1, options.doorChance) >>
         IN  /\ rng' = Consume(draws)
             /\ drawLog' = Labels(draws)
             /\ IF DoorAllowed(tiles, door[1], door[2])
                THEN IF byChance
                     THEN /\ tiles' = MakeDoor(tiles, door)
                          /\ added' = added + 1
                          /\ UNCHANGED failedByChance
                     ELSE /\ failedByChance' = Append(failedByChance, door)
                          /\ UNCHANGED <<tiles, added>>
                ELSE UNCHANGED <<tiles, added, failedByChance>>
    /\ attempts' = attempts + 1
    /\ UNCHANGED <<options, stageArg, stage, rooms, region, regionCount, pc, err,
                   roomTry, mazeVars, buckets, bucketAt, doorCount, result, firstResult, passes>>

\* a variant of NeedsForcedDoor: no door is ever forced
NeverForced(addedSoFar) == FALSE

\* line 441: if (!added_connections)
NeedsForcedDoor(addedSoFar) == addedSoFar = 0

\* lines 440-453: the door loop has ended; without a door so far one is forced,
\* then the next bucket follows or connectRegions() returns
BucketEnd ==
    /\ pc = "doors"
    /\ ~MoreAttempts
    /\ IF NeedsForcedDoor(added)
       THEN LET doors == IF Len(failedByChance) > 0 THEN failedByChance
                         ELSE buckets[bucketAt].tiles
            IN  \E rand \in RandBetween(0, Len(doors) - 1, 1) :
                  /\ tiles' = MakeDoor(tiles, doors[rand + 1])
                  /\ added' = added + 1
                  /\ rng' = Consume(<< Draw("forced", rand, 0, Len(doors) - 1) >>)
                  /\ drawLog' = << "forced" >>
       ELSE /\ drawLog' = <<>>
            /\ UNCHANGED <<tiles, added, rng>>
    /\ bucketAt' = bucketAt + 1
    /\ pc' = IF bucketAt + 1 <= Len(buckets) THEN "bucket" ELSE AfterConnect
    /\ UNCHANGED <<options, stageArg, stage, rooms, region, regionCount, err, roomTry,
                   mazeVars, buckets, doorCount, attempts, failedByChance, result,
                   firstResult, passes>>

(***************************************************************************)
(* removeDeadEnds() and the return of build().                             *)
(***************************************************************************)
\* line 473: this.rooms.find(room => room.containsTile(tile.x, tile.y))
InSomeRoom(accepted, x, y) == \E k \in 1..Len(accepted) : ContainsTile(accepted[k], x, y)

\* a variant of DeadEnd that takes only a tile without any exit for a dead end
DeadEndIsolatedOnly(t, accepted, p) ==
    /\ Len(NeighborsNotWall(t, p[1], p[2])) <= 0
    /\ ~InSomeRoom(accepted, t[p[1]][p[2]].x, t[p[1]][p[2]].y)

\* a variant of DeadEnd without the room guard
DeadEndAnywhere(t, accepted, p) == Len(NeighborsNotWall(t, p[1], p[2])) <= 1

\* lines 471-474: the tile is a dead end outside every room
DeadEnd(t, accepted, p) ==
    /\ Len(NeighborsNotWall(t, p[1], p[2])) <= 1
    /\ ~InSomeRoom(accepted, t[p[1]][p[2]].x, t[p[1]][p[2]].y)

\* cycle(): one pass over all tiles, each reset seen by the tiles visited after it
RECURSIVE Cycle(_, _, _, _)
Cycle(t, accepted, positions, done) ==
    IF positions = <<>> THEN [tiles |-> t, done |-> done]
    ELSE LET p == Head(positions)
             tile == t[p[1]][p[2]]
         IN  IF tile.type # "wall" /\ DeadEnd(t, accepted, p)
             THEN Cycle(ResetTile(t, tile.x, tile.y), accepted, Tail(positions), FALSE)
             ELSE Cycle(t, accepted, Tail(positions), done)

\* cycle(), row of this.tiles after row: the resets of a row are complete before
\* the next row is visited
RECURSIVE CycleRows(_, _, _, _)
CycleRows(t, accepted, x, done) ==
    IF x \notin DOMAIN t THEN [tiles |-> t, done |-> done]
    ELSE LET row == Cycle(t, accepted, ColumnPositions(t, x, 0), done)
         IN  IF row.done \in BOOLEAN
             THEN CycleRows(row.tiles, accepted, x + 1, row.done)
             ELSE row

\* one iteration of the loop of removeDeadEnds()
DeadEndPass ==
    /\ pc = "deadends"
    /\ passes < MaxPasses
    /\ LET pass == CycleRows(tiles, rooms, 0, TRUE)
       IN  /\ tiles' = pass.tiles
           /\ pc' = IF pass.done THEN "return" ELSE "deadends"
    /\ passes' = passes + 1
    /\ drawLog' = <<>>
    /\ UNCHANGED <<options, stageArg, stage, rooms, region, regionCount, err, roomTry,
                   mazeVars, connVars, rng, result, firstResult>>

\* line 236: return new Results(this.rooms, this.tiles, this.seed)
Return ==
    /\ pc = "return"
    /\ result' = [returned |-> TRUE, rooms |-> rooms, tiles |-> tiles]
    /\ pc' = "done"
    /\ drawLog' = <<>>
    /\ UNCHANGED <<options, stageArg, stage, tiles, rooms, region, regionCount, err,
                   roomTry, mazeVars, connVars, rng, firstResult, passes>>

\* the caller calls build() a second time on the same instance, with the same
\* stage and seed
Rebuild ==
    /\ pc = "done"
    /\ ~firstResult.returned
    /\ firstResult' = result
    /\ pc' = "idle"
    /\ drawLog' = <<>>
    /\ UNCHANGED <<options, stageArg, stage, tiles, rooms, region, regionCount, err,
                   roomTry, mazeVars, connVars, rng, result, passes>>

(***************************************************************************)
(* Specifications.                                                         *)
(***************************************************************************)
Next ==
    \/ Validate
    \/ Fill
    \/ AddRoom
    \/ MazeScan
    \/ GrowStep
    \/ ConnectScan
    \/ BucketStart
    \/ DoorAttempt
    \/ BucketEnd
    \/ DeadEndPass
    \/ Return

\* one build() on a fresh instance, any draws
Spec == Init /\ [][Next]_vars

\* validate() alone, over a wide range of stages and multiplier options
InitValidate ==
    Fresh(OptionArgs({1}, {1}, {1}, {0}, {0},
                     {NotGiven} \cup { Halves(h) : h \in -2..(2 * MaxMultiplier) },
                     {FALSE}),
          [width : MinStageArg..MaxValidateArg, height : MinStageArg..MaxValidateArg],
          FreeRng)

SpecValidate == InitValidate /\ [][Validate]_vars

\* validate(), fill() and a single room-placement attempt, on larger stages
InitRooms ==
    Fresh(OptionArgs({1}, {1}, {1}, 0..MaxExtraSize, {0}, {Halves(2), Halves(4)},
                     {FALSE}),
          [width : MinStageArg..MaxRoomStage, height : MinStageArg..MaxRoomStage],
          FreeRng)

NextRooms ==
    \/ Validate
    \/ Fill
    \/ AddRoom

SpecRooms == InitRooms /\ [][NextRooms]_vars

\* two successive build() calls on one instance, with the same stage and the same
\* seed: the second build's PRNG yields the raw values of the first again
InitRebuild ==
    Fresh(OptionArgs({1}, {1}, {1}, {0}, {0}, {NotGiven}, BOOLEAN),
          [width : MinStageArg..MaxRebuildStage, height : MinStageArg..MaxRebuildStage],
          TapedRng)

NextRebuild ==
    \/ Next
    \/ Rebuild

SpecRebuild == InitRebuild /\ [][NextRebuild]_vars

\* one build() on a wide, low stage: the outer limit of a room is even there
InitWide ==
    Fresh(OptionArgs({1}, {1}, {WideRoomTries}, {0}, {0}, {NotGiven}, BOOLEAN),
          [width : {WideStageWidth}, height : {MinDimension}],
          FreeRng)

SpecWide == InitWide /\ [][Next]_vars

\* one build() without rooms and with an even multiplier: the grid has even
\* dimensions
InitEven ==
    Fresh(OptionArgs({1}, {1}, {0}, {0}, {0}, {Halves(2 * EvenMultiplier)}, BOOLEAN),
          [width : {MinDimension}, height : {MinDimension}],
          FreeRng)

NextEven ==
    \/ Validate
    \/ Fill
    \/ MazeScan
    \/ GrowStep
    \/ ConnectScan
    \/ BucketStart
    \/ DoorAttempt
    \/ BucketEnd
    \/ DeadEndPass
    \/ Return

SpecEven == InitEven /\ [][NextEven]_vars

(***************************************************************************)
(* Helpers of the properties.                                              *)
(***************************************************************************)
\* the positions of a tile matrix
Positions(t) == UNION { { <<x, y>> : y \in DOMAIN t[x] } : x \in DOMAIN t }


\* the tile at a position
TileAt(t, p) == t[p[1]][p[2]]

Abs(n) == IF n < 0 THEN -n ELSE n

\* the positions inside a room's rectangle
Interior(r) == AreaPositions(r.x, r.y, r.width, r.height)

\* the region ids carried by the tiles cardinally adjacent to a position
RegionsAround(t, p) ==
    { TileAt(t, q).region :
        q \in { n \in Positions(t) : Abs(n[1] - p[1]) + Abs(n[2] - p[2]) = 1 } } \ {-1}

\* connectRegions() has just returned: nothing has changed the grid since
ConnectDone ==
    \/ pc = "deadends" /\ passes = 0
    \/ pc = "return" /\ ~options.removeDeadEnds

(***************************************************************************)
(* Properties.                                                             *)
(***************************************************************************)
\* C1: build with a stage whose width or height is below 5 fails with a range
\* error that names the offending dimension (width first), and the pipeline never
\* starts: no tile is allocated, no room recorded, no region started.
C1_RejectedStageNeverStarts ==
    (pc # "idle" /\ (stageArg.width < 5 \/ stageArg.height < 5)) =>
        /\ pc = "error"
        /\ err.kind = "RangeError"
        /\ err.names = (IF stageArg.width < 5 THEN "width" ELSE "height")
        /\ tiles = <<>>
        /\ rooms = <<>>
        /\ region = NoRegion
        /\ regionCount = 0

C1_Witness ==
    /\ pc = "error"
    /\ stageArg.width = 4
    /\ stageArg.height >= 5
    /\ err.names = "width"
    /\ err.received = 4

\* C2: a second build() on the same instance, with the same options, stage and
\* seed and fed the same draws, returns the tile matrix and the room list the
\* first build() returned.
C2_RepeatedBuildIdentical ==
    (pc = "done" /\ firstResult.returned) =>
        /\ result.tiles = firstResult.tiles
        /\ result.rooms = firstResult.rooms

\* C3: for every accepted stage and every multiplier option, the effective width
\* and height are both odd and at least 5.
C3_EffectiveDimensionsOdd ==
    pc = "fill" =>
        /\ stage.width % 2 = 1 /\ stage.width >= 5
        /\ stage.height % 2 = 1 /\ stage.height >= 5

\* C4: when build() returns, every floor tile has region >= 0 and a region type,
\* and every wall tile has region -1 and no region type.
C4_FloorAndWallTagging ==
    result.returned =>
        \A p \in Positions(result.tiles) :
            LET tile == TileAt(result.tiles, p) IN
            /\ tile.type = "floor" =>
                 tile.region >= 0 /\ tile.regionType \in {"room", "corridor"}
            /\ tile.type = "wall" =>
                 tile.region = -1 /\ tile.regionType = "none"

C4_Witness ==
    /\ result.returned
    /\ options.removeDeadEnds
    /\ passes >= 2
    /\ \E p \in Positions(result.tiles) : TileAt(result.tiles, p).type = "floor"
    /\ \E p \in Positions(result.tiles) :
         /\ p[1] % 2 = 1 /\ p[2] % 2 = 1
         /\ p[1] < stage.width - 1 /\ p[2] < stage.height - 1
         /\ TileAt(result.tiles, p).type = "wall"

\* C5: after every room-placement attempt no two accepted rooms touch: between
\* any two of them lies at least one wall tile in every direction, diagonals
\* included.
C5_RoomsNeverTouch ==
    \A i, j \in 1..Len(rooms) :
        i < j =>
            \A p \in Interior(rooms[i]), q \in Interior(rooms[j]) :
                Abs(p[1] - q[1]) > 1 \/ Abs(p[2] - q[2]) > 1

C5_Witness == Len(rooms) >= 2 /\ roomTry = Len(rooms)

\* C6: every accepted room lies strictly inside the border of the grid, and
\* carving it addresses only tiles of the grid.
C6_RoomsInsideBorder ==
    /\ \A k \in 1..Len(rooms) :
         /\ rooms[k].x >= 1
         /\ rooms[k].y >= 1
         /\ rooms[k].x + rooms[k].width < stage.width
         /\ rooms[k].y + rooms[k].height < stage.height
         /\ \A p \in Interior(rooms[k]) :
              HasTile(tiles, p[1], p[2]) /\ TileAt(tiles, p).type = "floor"
    /\ ~(err.kind = "RangeError" /\ err.names = "tile")

C6_Witness ==
    /\ Len(rooms) = 1
    /\ options.multiplier = 2
    /\ options.roomExtraSize = 1
    /\ rooms[1].x + rooms[1].width = stage.width - 1
    /\ rooms[1].y + rooms[1].height = stage.height - 1

\* C7: every accepted room has an odd origin (x and y) and an odd width and
\* height.
C7_RoomsOnOddLattice ==
    \A k \in 1..Len(rooms) :
        /\ rooms[k].x % 2 = 1
        /\ rooms[k].y % 2 = 1
        /\ rooms[k].width % 2 = 1
        /\ rooms[k].height % 2 = 1

\* C8: when build() returns, the tiles inside every accepted room are all floor
\* and carry one region id of type room, which no tile outside that room carries.
C8_RoomInteriorOneRegion ==
    result.returned =>
        \A k \in 1..Len(result.rooms) :
            \E id \in 0..(regionCount - 1) :
                /\ \A p \in Interior(result.rooms[k]) :
                     /\ TileAt(result.tiles, p).type = "floor"
                     /\ TileAt(result.tiles, p).region = id
                     /\ TileAt(result.tiles, p).regionType = "room"
                /\ \A q \in Positions(result.tiles) \ Interior(result.rooms[k]) :
                     TileAt(result.tiles, q).region # id

C8_Witness ==
    /\ result.returned
    /\ Len(result.rooms) >= 1
    /\ options.removeDeadEnds
    /\ passes >= 2
    /\ \E p \in Positions(result.tiles) : TileAt(result.tiles, p).regionType = "corridor"

\* C9: after connectRegions(), for every two regions that border a common
\* connector tile there is a door tile cardinally adjacent to a tile of each.
C9_DoorsSpanConnectorAdjacency ==
    ConnectDone =>
        \A p \in Positions(tiles) :
            TileAt(tiles, p).region = -1 =>
                \A r1, r2 \in RegionsAround(tiles, p) :
                    r1 # r2 =>
                        \E q \in Positions(tiles) :
                            /\ TileAt(tiles, q).type = "door"
                            /\ r1 \in RegionsAround(tiles, q)
                            /\ r2 \in RegionsAround(tiles, q)

C9_Witness ==
    /\ ConnectDone
    /\ Len(buckets) >= 2
    /\ drawLog = << "forced" >>

\* C10: after connectRegions(), every connector bucket holds at least one and at
\* most maxDoors door tiles (exactly one when maxDoors is 1).
C10_DoorsPerBucket ==
    ConnectDone =>
        \A k \in 1..Len(buckets) :
            LET doors == { i \in 1..Len(buckets[k].tiles) :
                             TileAt(tiles, buckets[k].tiles[i]).type = "door" }
            IN  /\ Cardinality(doors) >= 1
                /\ Cardinality(doors) <= options.maxDoors

C10_Witness ==
    /\ ConnectDone
    /\ options.maxDoors = 2
    /\ \E k \in 1..Len(buckets) :
         Cardinality({ i \in 1..Len(buckets[k].tiles) :
                         TileAt(tiles, buckets[k].tiles[i]).type = "door" }) = 2
    /\ \E k \in 1..Len(buckets) :
         Cardinality({ i \in 1..Len(buckets[k].tiles) :
                         TileAt(tiles, buckets[k].tiles[i]).type = "door" }) = 1

\* the positions cardinally adjacent to a position whose tile is not wall
OpenAround(t, p) ==
    { n \in Positions(t) :
        Abs(n[1] - p[1]) + Abs(n[2] - p[2]) = 1 /\ TileAt(t, n).type # "wall" }

\* the positions that lie inside some room of a list of rooms
RoomPositions(accepted) == UNION { Interior(accepted[k]) : k \in 1..Len(accepted) }

\* C11: with removeDeadEnds set, when build() returns every floor tile outside
\* every room, and every door tile left, has at least two cardinal neighbours
\* that are not wall.
C11_NoDeadEndLeft ==
    (result.returned /\ options.removeDeadEnds) =>
        \A p \in Positions(result.tiles) \ RoomPositions(result.rooms) :
            TileAt(result.tiles, p).type \in {"floor", "door"} =>
                Cardinality(OpenAround(result.tiles, p)) >= 2

C11_Witness ==
    /\ result.returned
    /\ options.removeDeadEnds
    /\ passes >= 3
    /\ \E p \in Positions(result.tiles) \ RoomPositions(result.rooms) :
         TileAt(result.tiles, p).type = "floor"
    /\ \E p \in Positions(result.tiles) : TileAt(result.tiles, p).type = "door"

\* the directions canCarve() allows from the cell on top of the stack
Carvable ==
    { cardinalDirections[k] : k \in { i \in 1..4 :
        CanCarve(tiles, cells[Len(cells)], cardinalDirections[i]) } }

\* C12: with windingPercent = 100, a maze-growth step whose previous carve
\* direction is still carvable from the current cell carves in that direction.
C12_WindingKeepsDirection ==
    [][ (/\ pc = "grow"
         /\ options.windingPercent = 100
         /\ lastDirection.set
         /\ <<lastDirection.x, lastDirection.y>> \in Carvable)
        => lastDirection' = lastDirection ]_vars

\* C13: with windingPercent = 0, a maze-growth step that can carve in a
\* direction other than that of the previous carve does not carve in the
\* previous direction.
C13_NoWindingChangesDirection ==
    [][ (/\ pc = "grow"
         /\ options.windingPercent = 0
         /\ lastDirection.set
         /\ Carvable \ { <<lastDirection.x, lastDirection.y>> } # {})
        => lastDirection' # lastDirection ]_vars

\* C14: on a 5 x 5 stage with multiplier 1 at most one room is accepted, and an
\* accepted room has a 3 x 3 interior.
C14_SmallStageOneRoom ==
    (stage.width = 5 /\ stage.height = 5 /\ options.multiplier = 1) =>
        /\ Len(rooms) <= 1
        /\ \A k \in 1..Len(rooms) : rooms[k].width = 3 /\ rooms[k].height = 3

\* C15: every room-placement attempt makes the five draws size, rectangularity,
\* axis, x, y in that order; a rejected attempt starts no region and leaves the
\* grid, the rooms and the current region as they were; an accepted attempt
\* starts one room region: regions started and rooms accepted stay equal.
C15_AttemptDrawsAndFrame ==
    [][ pc = "rooms" =>
          /\ drawLog' = << "size", "rectangularity", "axis", "x", "y" >>
          /\ roomTry' = roomTry + 1
          /\ rooms' = rooms => UNCHANGED <<tiles, region, regionCount>>
          /\ rooms' # rooms =>
               /\ Len(rooms') = Len(rooms) + 1
               /\ regionCount' = regionCount + 1
               /\ region' = [id |-> regionCount, type |-> "room"]
          /\ regionCount' = Len(rooms') ]_vars

C15_Witness ==
    /\ pc \in {"rooms", "maze"}
    /\ mazeAt = 1
    /\ roomTry = 2
    /\ Len(rooms) = 1
    /\ regionCount = 1
    /\ drawLog = << "size", "rectangularity", "axis", "x", "y" >>

\* C17: any two connector tiles that border the same set of regions are in the
\* same bucket, whichever side each region lies on.
C17_OneBucketPerRegionSet ==
    (pc = "bucket" /\ bucketAt = 1) =>
        \A i, j \in 1..Len(buckets) :
            \A a \in 1..Len(buckets[i].tiles), b \in 1..Len(buckets[j].tiles) :
                RegionsAround(tiles, buckets[i].tiles[a])
                    = RegionsAround(tiles, buckets[j].tiles[b]) => i = j

\* the positions of a tile matrix whose tile is not wall
NonWall(t) == { p \in Positions(t) : TileAt(t, p).type # "wall" }

C16_MazeCoversLattice ==
    (pc = "maze" /\ mazeAt > Len(LatticeCells(stage))) =>
        \A x \in 1..(stage.width - 1), y \in 1..(stage.height - 1) :
            (x % 2 = 1 /\ y % 2 = 1) => tiles[x][y].type = "floor"

\* C19: after connectRegions() no door tile has a door tile among its cardinal
\* neighbours.
C19_NoAdjacentDoors ==
    ConnectDone =>
        \A p, q \in Positions(tiles) :
            (TileAt(tiles, p).type = "door" /\ TileAt(tiles, q).type = "door") =>
                Abs(p[1] - q[1]) + Abs(p[2] - q[2]) # 1

\* the positions on the outer border of the grid
Border(s) ==
    { p \in (0..(s.width - 1)) \X (0..(s.height - 1)) :
        p[1] = 0 \/ p[2] = 0 \/ p[1] = s.width - 1 \/ p[2] = s.height - 1 }

\* C20: when build() returns, every tile on the outer border of the grid is wall.
C20_BorderIsWall ==
    result.returned =>
        \A p \in Border(stage) : TileAt(result.tiles, p).type = "wall"

====
